---- MODULE Spec2Model ----
(***************************************************************************)
(* The energy export of ha-tools (cmd/energy.go): one linear pass over the *)
(* recorder's state rows, filtered by per-entity watermarks, folded into   *)
(* per-minute averages for the high-frequency sensors, buffered into       *)
(* multi-row INSERT ... ON DUPLICATE KEY UPDATE statements of at most      *)
(* energyBatchSize rows and executed against the energy_points table.      *)
(*                                                                         *)
(* Time is counted in ticks, TicksPerSecond of them to the second, from a  *)
(* minute-aligned origin.  A float64 is an exact fraction <<n, d>> in      *)
(* lowest terms.                                                           *)
(***************************************************************************)
EXTENDS Integers, Sequences, FiniteSets, TLC

----------------------------------------------------------------------------
(* Bounds of the model *)

\* rows the recorder's states table may hold
MaxStates == 3
\* runs of the energy command
MaxRuns == 2
\* resolution of the clock below one second
TicksPerSecond == 4

----------------------------------------------------------------------------
(* Program constants *)

energyBatchSize == 500

\* time.Second, time.Minute in ticks
Second == TicksPerSecond
Minute == 60 * Second

\* the number of columns of one VALUES tuple
upsertColumns ==
    <<"entity_id", "state", "numeric_state", "unit", "device_class",
      "state_class", "friendly_name", "last_updated">>

\* one "(?, ?, ?, ?, ?, ?, ?, ?)" fragment of the statement
ValueTuple == "\n    (?, ?, ?, ?, ?, ?, ?, ?)"

\* the unique keys the DDL declares on energy_points
energyPointsUniqueKeys == {<<"state_id">>}

energyMinuteAverageTokens ==
    << <<"_voltage">>, <<"_current">>, <<"_current", "_consumption">> >>

----------------------------------------------------------------------------
(* Values *)

NullFloat64 == [Valid |-> FALSE, Float64 |-> <<0, 1>>]
NullTime == [Valid |-> FALSE, Time |-> 0]
NullString == [Valid |-> FALSE, String |-> ""]
NullTs == [Valid |-> FALSE, Ts |-> 0]

RECURSIVE GCD(_, _)
GCD(a, b) == IF b = 0 THEN a ELSE GCD(b, a % b)

\* a fraction in lowest terms, the denominator positive
Frac(n, d) ==
    LET g == GCD(IF n < 0 THEN -n ELSE n, d)
    IN  IF n = 0 THEN <<0, 1>> ELSE <<n \div g, d \div g>>

FloatAdd(a, b) == Frac(a[1] * b[2] + b[1] * a[2], a[2] * b[2])
FloatDivInt(a, k) == Frac(a[1], a[2] * k)

\* strconv.FormatFloat(f, 'f', -1, 64): the decimal text of f, written here
\* as the fraction it denotes
FormatFloat(f) ==
    IF f[2] = 1 THEN ToString(f[1])
    ELSE ToString(f[1]) \o "/" \o ToString(f[2])

\* the decimal texts strconv.ParseFloat accepts, among the texts of the model
DecimalTexts == ("2" :> <<2, 1>>) @@ ("4" :> <<4, 1>>) @@ ("6" :> <<6, 1>>)

parseNumericState(raw) ==
    IF raw = "" THEN NullFloat64
    ELSE IF raw \in DOMAIN DecimalTexts
         THEN [Valid |-> TRUE, Float64 |-> DecimalTexts[raw]]
         ELSE NullFloat64

\* t.Truncate(d)
Truncate(t, d) == t - (t % d)

\* math.Modf and time.Unix(sec, frac * 1e9): the instant of a Unix time
floatToNullTime(v) ==
    IF ~v.Valid THEN NullTime
    ELSE LET seconds == v.Ts \div Second
             frac == v.Ts % Second
         IN  [Valid |-> TRUE, Time |-> seconds * Second + frac]

\* a DATETIME column keeps whole seconds: a value with a fractional part is
\* rounded to the nearest second on assignment
ToDatetime(t) ==
    IF ~t.Valid THEN NullTime
    ELSE [Valid |-> TRUE,
          Time |-> ((2 * t.Time + Second) \div (2 * Second)) * Second]

----------------------------------------------------------------------------
(* Entities and attribute payloads *)

\* entity ids, written as sequences of segments
Voltage == <<"sensor.", "plug", "_voltage">>
Current == <<"sensor.", "plug", "_current">>
Power == <<"sensor.", "plug", "_power">>
Lamp == <<"sensor.", "lamp", "_power">>

\* the entity ids of the model in the order of SQLite's BINARY collation
EntityOrder == <<Lamp, Current, Power, Voltage>>

\* the --entity flag of the runs
entitySlug == <<"plug">>

EntityRank(e) == CHOOSE i \in 1..Len(EntityOrder) : EntityOrder[i] = e

\* strings.ToLower, segment by segment
ToLower(s) == [i \in 1..Len(s) |-> IF s[i] = "_VOLTAGE" THEN "_voltage" ELSE s[i]]

\* strings.Contains on texts written as sequences of segments
Contains(s, sub) ==
    \E i \in 1..(Len(s) - Len(sub) + 1) : SubSeq(s, i, i + Len(sub) - 1) = sub

needsMinuteAverage(entityID) ==
    LET lowered == ToLower(entityID)
    IN  \E k \in 1..Len(energyMinuteAverageTokens) :
            Contains(lowered, energyMinuteAverageTokens[k])

AttrsVoltA == "{\"unit_of_measurement\":\"V\",\"friendly_name\":\"Plug A\"}"
AttrsVoltB == "{\"unit_of_measurement\":\"V\",\"friendly_name\":\"Plug B\"}"
AttrsAmp == "{\"unit_of_measurement\":\"A\",\"device_class\":\"current\"}"
AttrsWatt == "{\"unit_of_measurement\":\"W\",\"state_class\":\"measurement\"}"
AttrsBroken == "{\"unit_of_measurement\":"

\* json.Unmarshal into map[string]any, for the payloads of the model
Unmarshal(raw) ==
    CASE raw = AttrsVoltA ->
           [ok |-> TRUE,
            attrs |-> ("unit_of_measurement" :> "V") @@ ("friendly_name" :> "Plug A")]
      [] raw = AttrsVoltB ->
           [ok |-> TRUE,
            attrs |-> ("unit_of_measurement" :> "V") @@ ("friendly_name" :> "Plug B")]
      [] raw = AttrsAmp ->
           [ok |-> TRUE,
            attrs |-> ("unit_of_measurement" :> "A") @@ ("device_class" :> "current")]
      [] raw = AttrsWatt ->
           [ok |-> TRUE,
            attrs |-> ("unit_of_measurement" :> "W") @@ ("state_class" :> "measurement")]
      [] OTHER -> [ok |-> FALSE, attrs |-> <<>>]

\* pickString(attrs[key]): the text of a field that is present
pickString(attrs, key) ==
    IF key \in DOMAIN attrs /\ attrs[key] # ""
    THEN [Valid |-> TRUE, String |-> attrs[key]]
    ELSE NullString

EmptyMetadata ==
    [Unit |-> NullString, DeviceClass |-> NullString,
     StateClass |-> NullString, FriendlyName |-> NullString]

\* (energyMetadata, error)
extractEnergyMetadata(raw) ==
    IF raw = "" THEN [ok |-> TRUE, meta |-> EmptyMetadata]
    ELSE LET u == Unmarshal(raw)
         IN  IF ~u.ok THEN [ok |-> FALSE, meta |-> EmptyMetadata]
             ELSE [ok |-> TRUE,
                   meta |-> [Unit |-> pickString(u.attrs, "unit_of_measurement"),
                             DeviceClass |-> pickString(u.attrs, "device_class"),
                             StateClass |-> pickString(u.attrs, "state_class"),
                             FriendlyName |-> pickString(u.attrs, "friendly_name")]]

----------------------------------------------------------------------------
(* State *)

VARIABLES
    states,            \* the recorder's state rows (SQLite), by state_id
    energy_points,     \* the sink table (MySQL), by state_id
    gps_points,        \* the sink table of the gps command (MySQL)
    pc,                \* "idle", "loop" (a run is reading rows), "done", "failed"
    runs,              \* runs started so far
    rows,              \* the rows the cursor has not returned yet
    entityWatermarks,  \* map[string]time.Time of the run
    args,              \* the positional arguments buffered for the next statement
    valueSegments,     \* the fragments of its VALUES list
    rowCount,          \* the rows buffered
    averager,          \* the *minuteAverager of the run
    group,             \* history: the state_ids passed to Add since the group was opened
    appended,          \* history: the calls of appendRow in this run
    writes,            \* history: the calls of ExecContext in this run
    processed,         \* history: the rows the loop has handled in this run
    loaded,            \* history: the watermarks as loaded when the run started
    history            \* history: one record per finished run

vars ==
    <<states, energy_points, gps_points, pc, runs, rows, entityWatermarks, args,
      valueSegments, rowCount, averager, group, appended, writes, processed,
      loaded, history>>

----------------------------------------------------------------------------
(* The source: Home Assistant's recorder *)

\* a last_updated_ts, t ticks after the origin
At(t) == [Valid |-> TRUE, Ts |-> t]

Report(entity, state, attrs, ts) ==
    [entity_id |-> entity, state |-> state, shared_attrs |-> attrs,
     last_updated_ts |-> ts]

\* what the sensors report.  Voltage: 2 and 4 at 10:00:05, 4 at 10:00:40 and
\* 6 at 10:01:10, the sensor being unavailable at 10:00:05, and one row
\* without last_updated_ts.  Current at 10:00:40.  Power a quarter of a second
\* later, and a power row whose attributes do not parse.
Reports ==
    { Report(Voltage, "2", AttrsVoltA, At(5 * Second)),
      Report(Voltage, "4", AttrsVoltB, At(5 * Second)),
      Report(Voltage, "unavailable", "", At(5 * Second)),
      Report(Voltage, "4", AttrsVoltB, At(40 * Second)),
      Report(Voltage, "6", AttrsVoltA, At(70 * Second)),
      Report(Voltage, "2", AttrsVoltA, NullTs),
      Report(Current, "6", AttrsAmp, At(40 * Second)),
      Report(Power, "4", AttrsWatt, At(40 * Second + 1)),
      Report(Power, "4", AttrsBroken, At(70 * Second)) }

ValidTs(seq) == {seq[i].last_updated_ts.Ts : i \in {j \in 1..Len(seq) : seq[j].last_updated_ts.Valid}}

\* the reports the recorder holds
Recorded(table) ==
    {Report(table[i].entity_id, table[i].state, table[i].shared_attrs,
            table[i].last_updated_ts) : i \in 1..Len(table)}

\* the recorder inserts a state row: state_id is the next id, its clock does
\* not run backwards, and a sensor reports once at an instant
Record(report) ==
    /\ pc # "loop"
    /\ runs < MaxRuns
    /\ Len(states) < MaxStates
    /\ report \notin Recorded(states)
    /\ report.last_updated_ts.Valid =>
           \A t \in ValidTs(states) : t <= report.last_updated_ts.Ts
    /\ states' = Append(states,
                        [state_id |-> Len(states) + 1,
                         entity_id |-> report.entity_id,
                         state |-> report.state,
                         last_updated_ts |-> report.last_updated_ts,
                         shared_attrs |-> report.shared_attrs])
    /\ UNCHANGED <<gps_points, energy_points, pc, runs, rows, entityWatermarks, args,
                   valueSegments, rowCount, averager, group, appended, writes,
                   processed, loaded, history>>

\* ORDER BY sm.entity_id, s.last_updated_ts: NULL sorts first
OrderByLE(a, b) ==
    \/ EntityRank(a.entity_id) < EntityRank(b.entity_id)
    \/ /\ a.entity_id = b.entity_id
       /\ \/ ~a.last_updated_ts.Valid
          \/ /\ b.last_updated_ts.Valid
             /\ a.last_updated_ts.Ts <= b.last_updated_ts.Ts

\* every order the query may return the set S in: rows of equal sort key
\* come in an order SQL leaves open
RECURSIVE OrderedResults(_)
OrderedResults(S) ==
    IF S = {} THEN {<<>>}
    ELSE UNION { {<<r>> \o t : t \in OrderedResults(S \ {r})} :
                 r \in {x \in S : \A y \in S : OrderByLE(x, y)} }

\* WHERE sm.entity_id LIKE '%' || entitySlug || '%'
QueryStates(table, slug) ==
    LET LikeSlug(r) == Contains(r.entity_id, slug)
        found == SelectSeq(table, LikeSlug)
        ascending == \A i \in 1..(Len(found) - 1) :
                         ~OrderByLE(found[i + 1], found[i])
    IN  IF ascending THEN {found}
        ELSE OrderedResults({found[i] : i \in 1..Len(found)})

----------------------------------------------------------------------------
(* The sink: the energy_points table *)

\* the row a VALUES tuple assigns, its state_id drawn from AUTO_INCREMENT
SinkRow(table, v) ==
    [state_id |-> Len(table) + 1,
     entity_id |-> v[1], state |-> v[2], numeric_state |-> v[3], unit |-> v[4],
     device_class |-> v[5], state_class |-> v[6], friendly_name |-> v[7],
     last_updated |-> ToDatetime(v[8])]

\* INSERT ... ON DUPLICATE KEY UPDATE of one tuple: a row that agrees with it
\* on a unique key is overwritten, otherwise the tuple is inserted
UpsertOne(table, v) ==
    LET new == SinkRow(table, v)
        dup == {i \in 1..Len(table) :
                  \E key \in energyPointsUniqueKeys :
                      \A k \in 1..Len(key) : table[i][key[k]] = new[key[k]]}
    IN  IF dup = {} THEN Append(table, new)
        ELSE LET i == CHOOSE j \in dup : \A k \in dup : j <= k
             IN  [table EXCEPT ![i] = [new EXCEPT !.state_id = table[i].state_id]]

\* the statement applies its tuples in order: the first half, then, to the
\* table the first half leaves (never a shorter one), the second half
RECURSIVE ExecUpsert(_, _)
ExecUpsert(table, tuples) ==
    IF tuples = <<>> THEN table
    ELSE IF Len(tuples) = 1 THEN UpsertOne(table, tuples[1])
    ELSE LET half == Len(tuples) \div 2
             first == ExecUpsert(table, SubSeq(tuples, 1, half))
         IN  IF Len(first) < Len(table) THEN table
             ELSE ExecUpsert(first, SubSeq(tuples, half + 1, Len(tuples)))

\* the tuples of a statement: the placeholders of its VALUES fragments bound
\* to the positional arguments in order
StatementTuples(segments, arguments) ==
    LET n == Cardinality({i \in 1..Len(segments) : segments[i] = ValueTuple})
        w == Len(upsertColumns)
    IN  [k \in 1..n |-> SubSeq(arguments, w * (k - 1) + 1, w * k)]

\* SELECT entity_id, MAX(last_updated) FROM energy_points GROUP BY entity_id,
\* keeping the entities whose maximum is not NULL
loadEnergyEntityWatermarks(table) ==
    LET at(e) == {table[i].last_updated.Time :
                    i \in {j \in 1..Len(table) :
                             table[j].entity_id = e /\ table[j].last_updated.Valid}}
        ents == {table[i].entity_id : i \in 1..Len(table)}
    IN  [e \in {x \in ents : at(x) # {}} |->
            CHOOSE t \in at(e) : \A u \in at(e) : u <= t]

----------------------------------------------------------------------------
(* transferEnergyData: the helpers of one run.  Each takes the run's mutable *)
(* state as a record and yields it as the call leaves it; err is set when    *)
(* the call returns an error.  ok is the outcome of the ExecContext call the *)
(* helper may reach.                                                         *)

Here ==
    [energy_points |-> energy_points, entityWatermarks |-> entityWatermarks,
     args |-> args, valueSegments |-> valueSegments, rowCount |-> rowCount,
     averager |-> averager, err |-> FALSE,
     group |-> group, appended |-> appended, writes |-> writes]

\* the statement is executed even when nothing is buffered
flushBatch_WritesEmpty(s, ok) ==
    LET tuples == StatementTuples(s.valueSegments, s.args)
    IN  IF ~ok
        THEN [s EXCEPT !.err = TRUE,
                       !.writes = Append(@, [tuples |-> tuples, ok |-> FALSE])]
        ELSE [s EXCEPT !.energy_points = ExecUpsert(@, tuples),
                       !.valueSegments = <<>>,
                       !.args = <<>>,
                       !.rowCount = 0,
                       !.writes = Append(@, [tuples |-> tuples, ok |-> TRUE])]

flushBatch(s, ok) ==
    IF s.rowCount = 0 THEN s
    ELSE LET tuples == StatementTuples(s.valueSegments, s.args)
         IN  IF ~ok
             THEN [s EXCEPT !.err = TRUE,
                            !.writes = Append(@, [tuples |-> tuples, ok |-> FALSE])]
             ELSE [s EXCEPT !.energy_points = ExecUpsert(@, tuples),
                            !.valueSegments = <<>>,
                            !.args = <<>>,
                            !.rowCount = 0,
                            !.writes = Append(@, [tuples |-> tuples, ok |-> TRUE])]

\* the watermark is never advanced
AdvanceWatermark_Never(wm, row) == wm

\* the watermark is stored as the minute bucket of the row
AdvanceWatermark_Bucket(wm, row) ==
    IF /\ row.lastUpdated.Valid
       /\ \/ row.entityID \notin DOMAIN wm
          \/ row.lastUpdated.Time > wm[row.entityID]
    THEN (row.entityID :> Truncate(row.lastUpdated.Time, Minute)) @@ wm
    ELSE wm

\* lines 186-190: the watermark of the row's entity after the row is buffered
AdvanceWatermark(wm, row) ==
    IF /\ row.lastUpdated.Valid
       /\ \/ row.entityID \notin DOMAIN wm
          \/ row.lastUpdated.Time > wm[row.entityID]
    THEN (row.entityID :> row.lastUpdated.Time) @@ wm
    ELSE wm

\* the threshold is compared with the number of buffered arguments, not rows
BatchIsFull_CountsArgs(n) == n * Len(upsertColumns) >= energyBatchSize

\* line 194
BatchIsFull(n) == n >= energyBatchSize

\* from: whether the row is an average, and the state_ids of the source rows
\* it stands for (history)
\* the timestamp is left out of the arguments
appendRow_DropsArgument(s, row, from, ok) ==
    LET s1 == [s EXCEPT
                 !.valueSegments = IF s.rowCount > 0
                                   THEN @ \o <<",", ValueTuple>>
                                   ELSE Append(@, ValueTuple),
                 !.args = @ \o <<row.entityID, row.state, row.numericState,
                                 row.meta.Unit, row.meta.DeviceClass,
                                 row.meta.StateClass, row.meta.FriendlyName>>,
                 !.entityWatermarks = AdvanceWatermark(@, row),
                 !.rowCount = @ + 1,
                 !.appended = Append(@, [row |-> row, from |-> from])]
    IN  IF BatchIsFull(s1.rowCount) THEN flushBatch(s1, ok) ELSE s1

appendRow(s, row, from, ok) ==
    LET s1 == [s EXCEPT
                 !.valueSegments = IF s.rowCount > 0
                                   THEN @ \o <<",", ValueTuple>>
                                   ELSE Append(@, ValueTuple),
                 !.args = @ \o <<row.entityID, row.state, row.numericState,
                                 row.meta.Unit, row.meta.DeviceClass,
                                 row.meta.StateClass, row.meta.FriendlyName,
                                 row.lastUpdated>>,
                 !.entityWatermarks = AdvanceWatermark(@, row),
                 !.rowCount = @ + 1,
                 !.appended = Append(@, [row |-> row, from |-> from])]
    IN  IF BatchIsFull(s1.rowCount) THEN flushBatch(s1, ok) ELSE s1

\* a row without a timestamp is aggregated too
shouldAggregateRow_IgnoresTime(row) ==
    row.numericState.Valid /\ needsMinuteAverage(row.entityID)

shouldAggregateRow(row) ==
    row.lastUpdated.Valid /\ row.numericState.Valid /\ needsMinuteAverage(row.entityID)

\* newMinuteAverager, and the averager as reset leaves it
newMinuteAverager ==
    [active |-> FALSE, entityID |-> <<>>, minute |-> 0, sum |-> <<0, 1>>,
     count |-> 0, maxTime |-> 0, maxTimeValid |-> FALSE, stateID |-> 0,
     meta |-> EmptyMetadata]

\* the row Flush emits for the group m
averageRow(m) ==
    LET avg == FloatDivInt(m.sum, m.count)
    IN  [stateID |-> m.stateID,
         entityID |-> m.entityID,
         state |-> FormatFloat(avg),
         numericState |-> [Valid |-> TRUE, Float64 |-> avg],
         meta |-> m.meta,
         lastUpdated |-> [Valid |-> TRUE, Time |-> m.maxTime]]

\* the group is kept when emit fails
Flush_KeepsGroupOnError(s, ok) ==
    IF ~s.averager.active THEN s
    ELSE LET m == s.averager
             r == [s EXCEPT !.averager = newMinuteAverager, !.group = <<>>]
         IN  IF m.count = 0 \/ ~m.maxTimeValid THEN r
             ELSE LET e == appendRow(r, averageRow(m),
                                     [avg |-> TRUE, ids |-> s.group], ok)
                  IN  IF e.err
                      THEN [e EXCEPT !.averager = m, !.group = s.group]
                      ELSE e

\* minuteAverager.Flush, emit being appendRow
Flush(s, ok) ==
    IF ~s.averager.active THEN s
    ELSE LET m == s.averager
             r == [s EXCEPT !.averager = newMinuteAverager, !.group = <<>>]
         IN  IF m.count = 0 \/ ~m.maxTimeValid THEN r
             ELSE appendRow(r, averageRow(m), [avg |-> TRUE, ids |-> s.group], ok)

\* the comparison without the tie-break on the state id: of two readings of
\* one instant the one added last wins
Wins_LastAdded(m, row) ==
    \/ ~m.maxTimeValid
    \/ row.lastUpdated.Time >= m.maxTime

\* line 467: row becomes the representative of the group
Wins(m, row) ==
    \/ ~m.maxTimeValid
    \/ row.lastUpdated.Time > m.maxTime
    \/ (row.lastUpdated.Time = m.maxTime /\ row.stateID > m.stateID)

\* the sum is assigned where it is to be added to
AddToSum_Overwrites(sum, value) == value

\* line 464
AddToSum(sum, value) == FloatAdd(sum, value)

\* the reading is added to the sum and counted nowhere
Accumulate_ForgetsCount(m, row) ==
    [m EXCEPT !.sum = AddToSum(@, row.numericState.Float64)]

\* lines 464-472: the sum, the count and the representative after row
Accumulate(m, row) ==
    LET m1 == [m EXCEPT !.sum = AddToSum(@, row.numericState.Float64),
                        !.count = @ + 1]
    IN  IF Wins(m1, row)
        THEN [m1 EXCEPT !.maxTime = row.lastUpdated.Time,
                        !.maxTimeValid = TRUE,
                        !.stateID = row.stateID,
                        !.meta = row.meta]
        ELSE m1

\* no reading closes the open group
Crosses_Never(m, entityID, minute) == FALSE

\* every reading closes the open group
Crosses_Always(m, entityID, minute) == TRUE

\* the boundary test that forgets the minute bucket
Crosses_EntityOnly(m, entityID, minute) == entityID # m.entityID

\* the boundary test that forgets the entity
Crosses_MinuteOnly(m, entityID, minute) == minute # m.minute

\* line 448: row belongs to another group than the open one
Crosses(m, entityID, minute) == entityID # m.entityID \/ minute # m.minute

\* minuteAverager.Add
Add(s, row, ok) ==
    LET minute == Truncate(row.lastUpdated.Time, Minute)
        m0 == s.averager
        s1 == IF m0.active /\ Crosses(m0, row.entityID, minute)
              THEN Flush(s, ok)
              ELSE s
    IN  IF s1.err THEN s1
        ELSE LET m1 == IF ~s1.averager.active
                       THEN [s1.averager EXCEPT !.active = TRUE,
                                                !.entityID = row.entityID,
                                                !.minute = minute,
                                                !.sum = <<0, 1>>,
                                                !.count = 0,
                                                !.maxTime = 0,
                                                !.maxTimeValid = FALSE]
                       ELSE s1.averager
             IN  [s1 EXCEPT !.averager = Accumulate(m1, row),
                            !.group = Append(IF s1.averager.active THEN @ ELSE <<>>,
                                             row.stateID)]

\* a row at the watermark itself is let through
Skips_Strict(wm, entityID, lastUpdated) ==
    /\ lastUpdated.Valid
    /\ entityID \in DOMAIN wm
    /\ lastUpdated.Time < wm[entityID]

\* lines 220-226: the row is at or before its entity's watermark
Skips(wm, entityID, lastUpdated) ==
    /\ lastUpdated.Valid
    /\ entityID \in DOMAIN wm
    /\ ~(lastUpdated.Time > wm[entityID])

\* lines 233-241: the energyRow of a scanned row
EnergyRow(r, meta) ==
    [stateID |-> r.state_id,
     entityID |-> r.entity_id,
     state |-> r.state,
     numericState |-> parseNumericState(r.state),
     meta |-> meta,
     lastUpdated |-> floatToNullTime(r.last_updated_ts)]

\* the row is appended while the group stays open
PassThrough_NoFlush(s, row, ok) ==
    appendRow(s, row, [avg |-> FALSE, ids |-> <<row.stateID>>], ok)

\* lines 250-256: the open group is flushed, then the row is appended
PassThrough(s, row, ok) ==
    LET s1 == Flush(s, ok)
    IN  IF s1.err THEN s1
        ELSE appendRow(s1, row, [avg |-> FALSE, ids |-> <<row.stateID>>], ok)

----------------------------------------------------------------------------
(* The runs *)

\* no run has started and the sink is empty
\* what a run has done and holds
runState ==
    <<energy_points, rows, entityWatermarks, args, valueSegments, rowCount,
      averager, group, appended, writes, processed>>

Idle ==
    /\ energy_points = <<>>
    /\ gps_points = <<>>
    /\ pc = "idle"
    /\ runs = 0
    /\ rows = <<>>
    /\ entityWatermarks = <<>>
    /\ args = <<>>
    /\ valueSegments = <<>>
    /\ rowCount = 0
    /\ averager = newMinuteAverager
    /\ group = <<>>
    /\ appended = <<>>
    /\ writes = <<>>
    /\ processed = <<>>
    /\ loaded = [entityWatermarks |-> <<>>, energy_points |-> <<>>]
    /\ history = <<>>

Init == states = <<>> /\ Idle

\* lines 58-200: the watermarks are loaded, the query is opened, the buffer
\* and the averager are created
StartRun ==
    /\ pc # "loop"
    /\ runs < MaxRuns
    /\ \E result \in QueryStates(states, entitySlug) : rows' = result
    /\ entityWatermarks' = loadEnergyEntityWatermarks(energy_points)
    /\ args' = <<>>
    /\ valueSegments' = <<>>
    /\ rowCount' = 0
    /\ averager' = newMinuteAverager
    /\ pc' = "loop"
    /\ runs' = runs + 1
    /\ group' = <<>>
    /\ appended' = <<>>
    /\ writes' = <<>>
    /\ processed' = <<>>
    /\ loaded' = [entityWatermarks |-> loadEnergyEntityWatermarks(energy_points),
                  energy_points |-> energy_points]
    /\ UNCHANGED <<gps_points, states, energy_points, history>>

\* the run's state after a helper returned s
Leave(s) ==
    /\ energy_points' = s.energy_points
    /\ entityWatermarks' = s.entityWatermarks
    /\ args' = s.args
    /\ valueSegments' = s.valueSegments
    /\ rowCount' = s.rowCount
    /\ averager' = s.averager
    /\ group' = s.group
    /\ appended' = s.appended
    /\ writes' = s.writes

\* the record of a run that ended with result, its state being s
Finished(s, result) ==
    [result |-> result, states |-> Len(states), appended |-> Len(s.appended)]

\* the row is handled as how ("skip", "add", "raw") and the loop goes on,
\* or returns the error of s
Handled(s, how) ==
    /\ rows' = Tail(rows)
    /\ processed' = Append(processed,
                           [state_id |-> Head(rows).state_id, how |-> how])
    /\ pc' = IF s.err THEN "failed" ELSE "loop"
    /\ history' = IF s.err THEN Append(history, Finished(s, "failed")) ELSE history
    /\ UNCHANGED <<gps_points, states, runs, loaded>>

\* the open group is flushed when a row is skipped
SkipRow_FlushesGroup ==
    /\ pc = "loop"
    /\ rows # <<>>
    /\ LET r == Head(rows)
       IN  Skips(entityWatermarks, r.entity_id, floatToNullTime(r.last_updated_ts))
    /\ Leave(Flush(Here, TRUE))
    /\ Handled(Here, "skip")

\* lines 220-226: continue
SkipRow ==
    /\ pc = "loop"
    /\ rows # <<>>
    /\ LET r == Head(rows)
       IN  Skips(entityWatermarks, r.entity_id, floatToNullTime(r.last_updated_ts))
    /\ Leave(Here)
    /\ Handled(Here, "skip")

\* the row whose attributes do not parse is passed over and the loop goes on
ExtractError_SkipsRow ==
    /\ pc = "loop"
    /\ rows # <<>>
    /\ LET r == Head(rows)
       IN  /\ ~Skips(entityWatermarks, r.entity_id, floatToNullTime(r.last_updated_ts))
           /\ ~extractEnergyMetadata(r.shared_attrs).ok
    /\ Leave(Here)
    /\ Handled(Here, "skip")

\* lines 228-231: the attributes do not parse, the run returns the error
ExtractError ==
    /\ pc = "loop"
    /\ rows # <<>>
    /\ LET r == Head(rows)
       IN  /\ ~Skips(entityWatermarks, r.entity_id, floatToNullTime(r.last_updated_ts))
           /\ ~extractEnergyMetadata(r.shared_attrs).ok
    /\ pc' = "failed"
    /\ history' = Append(history, Finished(Here, "failed"))
    /\ UNCHANGED <<gps_points, states, energy_points, runs, rows, entityWatermarks, args,
                   valueSegments, rowCount, averager, group, appended, writes,
                   processed, loaded>>

\* lines 243-248: the row goes to the averager
AggregateRow ==
    /\ pc = "loop"
    /\ rows # <<>>
    /\ LET r == Head(rows)
           x == extractEnergyMetadata(r.shared_attrs)
           row == EnergyRow(r, x.meta)
       IN  /\ ~Skips(entityWatermarks, r.entity_id, row.lastUpdated)
           /\ x.ok
           /\ shouldAggregateRow(row)
           /\ \E ok \in BOOLEAN :
                  LET s == Add(Here, row, ok)
                  IN  Leave(s) /\ Handled(s, "add")

\* lines 250-256: the open group is flushed and the row is appended as it is
PassThroughRow ==
    /\ pc = "loop"
    /\ rows # <<>>
    /\ LET r == Head(rows)
           x == extractEnergyMetadata(r.shared_attrs)
           row == EnergyRow(r, x.meta)
       IN  /\ ~Skips(entityWatermarks, r.entity_id, row.lastUpdated)
           /\ x.ok
           /\ ~shouldAggregateRow(row)
           /\ \E ok \in BOOLEAN :
                  LET s == PassThrough(Here, row, ok)
                  IN  Leave(s) /\ Handled(s, "raw")

\* the trailing batch is written while the trailing group stays open
Finish_BatchOnly(s, ok) == flushBatch(s, ok)

\* lines 263-267: the averager is flushed, then the batch
Finish(s, ok) ==
    LET s1 == Flush(s, ok)
    IN  IF s1.err THEN s1 ELSE flushBatch(s1, ok)

\* lines 259-267: the cursor is exhausted
EndOfStream ==
    /\ pc = "loop"
    /\ rows = <<>>
    /\ \E ok \in BOOLEAN :
           LET s2 == Finish(Here, ok)
               result == IF s2.err THEN "failed" ELSE "done"
           IN  /\ Leave(s2)
               /\ pc' = result
               /\ history' = Append(history, Finished(s2, result))
    /\ UNCHANGED <<gps_points, states, runs, rows, processed, loaded>>

\* the run that cannot fetch the next row still flushes the group and the batch
IterateError_Flushes ==
    /\ pc = "loop"
    /\ LET s2 == Finish(Here, TRUE)
       IN  /\ Leave(s2)
           /\ history' = Append(history, Finished(s2, "failed"))
    /\ pc' = "failed"
    /\ UNCHANGED <<gps_points, states, runs, rows, processed, loaded>>

\* lines 202 and 259-261: rows.Next() returns false because the context is
\* cancelled (or the fetch fails), rows.Err() is not nil and the run returns
IterateError ==
    /\ pc = "loop"
    /\ pc' = "failed"
    /\ history' = Append(history, Finished(Here, "failed"))
    /\ UNCHANGED <<gps_points, states, runs, loaded, runState>>

RecordState == \E report \in Reports : Record(report)

Next ==
    \/ RecordState
    \/ StartRun
    \/ SkipRow
    \/ ExtractError
    \/ AggregateRow
    \/ PassThroughRow
    \/ EndOfStream

Spec == Init /\ [][Next]_vars

\* the runs whose context may be cancelled while the cursor is read
NextCancel ==
    \/ RecordState
    \/ StartRun
    \/ SkipRow
    \/ ExtractError
    \/ AggregateRow
    \/ PassThroughRow
    \/ EndOfStream
    \/ IterateError

SpecCancel == Init /\ [][NextCancel]_vars

----------------------------------------------------------------------------
(* Streams longer than a batch *)

\* a recorder that holds n power readings, one a second, the first of them
\* without last_updated_ts, and after them tail voltage readings, one a minute
LongStates(n, tail) ==
    [i \in 1..(n + tail) |->
        IF i <= n
        THEN [state_id |-> i, entity_id |-> Power, state |-> "4",
              last_updated_ts |-> IF i = 1 THEN NullTs ELSE At(i * Second),
              shared_attrs |-> AttrsWatt]
        ELSE [state_id |-> i, entity_id |-> Voltage, state |-> "2",
              last_updated_ts |-> At((n + 60 * (i - n)) * Second),
              shared_attrs |-> AttrsVoltA]]

InitLong ==
    /\ \E n \in (energyBatchSize - 2)..energyBatchSize :
           \E tail \in 0..2 : states = LongStates(n, tail)
    /\ Idle

NextLong ==
    \/ StartRun
    \/ SkipRow
    \/ AggregateRow
    \/ PassThroughRow
    \/ EndOfStream

SpecLong == InitLong /\ [][NextLong]_vars

----------------------------------------------------------------------------
(* The gps command: transferGPSData *)

Phone == <<"device_tracker.", "phone">>

\* shared_attrs payloads of the tracker's state rows
GpsFull == "{\"latitude\":2,\"longitude\":4,\"gps_accuracy\":6}"
GpsNoAccuracy == "{\"latitude\":4,\"longitude\":6}"
GpsBadAccuracy == "{\"latitude\":\"2\",\"longitude\":6,\"gps_accuracy\":\"high\"}"
GpsNullLatitude == "{\"latitude\":null,\"longitude\":4}"
GpsTextLongitude == "{\"latitude\":2,\"longitude\":\"east\"}"
GpsBroken == "{\"latitude\":2,\"longitude\":"
GpsNone == "{\"source_type\":\"router\"}"

\* the values json.Unmarshal stores in a map[string]any
JsonNumber(f) == [kind |-> "float64", Float64 |-> f, String |-> ""]
JsonString(t) == [kind |-> "string", Float64 |-> <<0, 1>>, String |-> t]
JsonNull == [kind |-> "nil", Float64 |-> <<0, 1>>, String |-> ""]

\* json.Unmarshal into map[string]any, for the payloads of the tracker
UnmarshalAny(raw) ==
    CASE raw = GpsFull ->
           [ok |-> TRUE,
            attrs |-> ("latitude" :> JsonNumber(<<2, 1>>))
                      @@ ("longitude" :> JsonNumber(<<4, 1>>))
                      @@ ("gps_accuracy" :> JsonNumber(<<6, 1>>))]
      [] raw = GpsNoAccuracy ->
           [ok |-> TRUE,
            attrs |-> ("latitude" :> JsonNumber(<<4, 1>>))
                      @@ ("longitude" :> JsonNumber(<<6, 1>>))]
      [] raw = GpsBadAccuracy ->
           [ok |-> TRUE,
            attrs |-> ("latitude" :> JsonString("2"))
                      @@ ("longitude" :> JsonNumber(<<6, 1>>))
                      @@ ("gps_accuracy" :> JsonString("high"))]
      [] raw = GpsNullLatitude ->
           [ok |-> TRUE,
            attrs |-> ("latitude" :> JsonNull)
                      @@ ("longitude" :> JsonNumber(<<4, 1>>))]
      [] raw = GpsTextLongitude ->
           [ok |-> TRUE,
            attrs |-> ("latitude" :> JsonNumber(<<2, 1>>))
                      @@ ("longitude" :> JsonString("east"))]
      [] raw = GpsNone ->
           [ok |-> TRUE, attrs |-> ("source_type" :> JsonString("router"))]
      [] OTHER -> [ok |-> FALSE, attrs |-> <<>>]

\* attrs[key]: nil when the key is missing
Index(attrs, key) == IF key \in DOMAIN attrs THEN attrs[key] ELSE JsonNull

\* strings are rejected
pickFloat_NumbersOnly(v) ==
    IF v.kind = "float64" THEN [ok |-> TRUE, val |-> v.Float64]
    ELSE [ok |-> FALSE, val |-> <<0, 1>>]

\* pickFloat: (float64, bool).  json.Unmarshal stores float64, string, nil,
\* bool, slices and maps, so the other numeric cases of the switch are not met
pickFloat(v) ==
    CASE v.kind = "nil" -> [ok |-> FALSE, val |-> <<0, 1>>]
      [] v.kind = "float64" -> [ok |-> TRUE, val |-> v.Float64]
      [] v.kind = "string" ->
           IF v.String = "" THEN [ok |-> FALSE, val |-> <<0, 1>>]
           ELSE IF v.String \in DOMAIN DecimalTexts
                THEN [ok |-> TRUE, val |-> DecimalTexts[v.String]]
                ELSE [ok |-> FALSE, val |-> <<0, 1>>]
      [] OTHER -> [ok |-> FALSE, val |-> <<0, 1>>]

\* the field of the payload as a sql.NullFloat64
Coordinate(attrs, key) ==
    LET p == pickFloat(Index(attrs, key))
    IN  IF p.ok THEN [Valid |-> TRUE, Float64 |-> p.val] ELSE NullFloat64

\* extractCoordinates: (lat, lon, acc, err)
extractCoordinates(raw) ==
    IF raw = ""
    THEN [ok |-> TRUE, lat |-> NullFloat64, lon |-> NullFloat64, acc |-> NullFloat64]
    ELSE LET u == UnmarshalAny(raw)
         IN  IF ~u.ok
             THEN [ok |-> FALSE, lat |-> NullFloat64, lon |-> NullFloat64,
                   acc |-> NullFloat64]
             ELSE [ok |-> TRUE,
                   lat |-> Coordinate(u.attrs, "latitude"),
                   lon |-> Coordinate(u.attrs, "longitude"),
                   acc |-> Coordinate(u.attrs, "gps_accuracy")]

\* what the tracker reports
GpsReports ==
    { Report(Phone, "home", GpsFull, At(5 * Second)),
      Report(Phone, "not_home", GpsNoAccuracy, At(40 * Second)),
      Report(Phone, "home", GpsBadAccuracy, At(40 * Second + 1)),
      Report(Phone, "home", GpsNullLatitude, At(70 * Second)),
      Report(Phone, "not_home", GpsTextLongitude, NullTs),
      Report(Phone, "home", GpsBroken, At(70 * Second)),
      Report(Phone, "home", GpsNone, At(5 * Second)) }

\* sa.shared_attrs LIKE '%"latitude"%' AND sa.shared_attrs LIKE '%"longitude"%'
LikeCoordinates(raw) ==
    raw \in {GpsFull, GpsNoAccuracy, GpsBadAccuracy, GpsNullLatitude,
             GpsTextLongitude, GpsBroken}

\* the query has no ORDER BY: its rows come in any order
RECURSIVE AnyOrder(_)
AnyOrder(S) ==
    IF S = {} THEN {<<>>}
    ELSE UNION { {<<r>> \o t : t \in AnyOrder(S \ {r})} : r \in S }

QueryCoordinates(table) ==
    AnyOrder({table[i] : i \in {j \in 1..Len(table) :
                                   LikeCoordinates(table[j].shared_attrs)}})

\* the columns of the INSERT INTO gps_points
gpsColumns == 7

\* the row a VALUES tuple assigns
GpsPoint(v) ==
    [state_id |-> v[1], entity_id |-> v[2], state |-> v[3], latitude |-> v[4],
     longitude |-> v[5], gps_accuracy |-> v[6], last_updated |-> ToDatetime(v[7])]

\* the tuple is inserted whether or not its state_id is in the table
UpsertGpsPoint_Inserts(table, v) == Append(table, GpsPoint(v))

\* INSERT ... ON DUPLICATE KEY UPDATE of one tuple: state_id is the PRIMARY
\* KEY, the row that has it is overwritten, otherwise the tuple is inserted
UpsertGpsPoint(table, v) ==
    LET dup == {i \in 1..Len(table) : table[i].state_id = v[1]}
    IN  IF dup = {} THEN Append(table, GpsPoint(v))
        ELSE [i \in 1..Len(table) |-> IF i \in dup THEN GpsPoint(v) ELSE table[i]]

RECURSIVE ExecGpsUpsert(_, _)
ExecGpsUpsert(table, tuples) ==
    IF tuples = <<>> THEN table
    ELSE ExecGpsUpsert(UpsertGpsPoint(table, Head(tuples)), Tail(tuples))

\* the tuples of the statement: args, seven to a row
GpsStatementTuples(arguments) ==
    [k \in 1..(Len(arguments) \div gpsColumns) |->
        SubSeq(arguments, gpsColumns * (k - 1) + 1, gpsColumns * k)]

\* the tracker's recorder inserts a state row
RecordPosition == \E report \in GpsReports : Record(report)

\* what the energy command holds, which the gps command leaves alone
energyState ==
    <<energy_points, entityWatermarks, averager, group, appended, loaded>>

\* the record of a gps run that ended with result
GpsFinished(result) ==
    [result |-> result, states |-> Len(states), appended |-> rowCount]

\* lines 57-146: the table is ensured, the query is opened, the buffer is empty
StartGps ==
    /\ pc # "loop"
    /\ runs < MaxRuns
    /\ \E result \in QueryCoordinates(states) : rows' = result
    /\ args' = <<>>
    /\ valueSegments' = <<>>
    /\ rowCount' = 0
    /\ pc' = "loop"
    /\ runs' = runs + 1
    /\ writes' = <<>>
    /\ processed' = <<>>
    /\ UNCHANGED <<states, gps_points, history, energyState>>

\* lines 160-163: the payload does not parse, the run returns the error
GpsExtractError ==
    /\ pc = "loop"
    /\ rows # <<>>
    /\ ~extractCoordinates(Head(rows).shared_attrs).ok
    /\ pc' = "failed"
    /\ history' = Append(history, GpsFinished("failed"))
    /\ UNCHANGED <<states, gps_points, runs, rows, args, valueSegments, rowCount,
                   writes, processed, energyState>>

\* lines 164-166: continue
GpsSkipRow ==
    /\ pc = "loop"
    /\ rows # <<>>
    /\ LET c == extractCoordinates(Head(rows).shared_attrs)
       IN  c.ok /\ (~c.lat.Valid \/ ~c.lon.Valid)
    /\ rows' = Tail(rows)
    /\ processed' = Append(processed,
                           [state_id |-> Head(rows).state_id, how |-> "skip"])
    /\ UNCHANGED <<states, gps_points, pc, runs, args, valueSegments, rowCount,
                   writes, history, energyState>>

\* lines 168-186: the row is added to the statement
GpsAppendRow ==
    /\ pc = "loop"
    /\ rows # <<>>
    /\ LET r == Head(rows)
           c == extractCoordinates(r.shared_attrs)
       IN  /\ c.ok /\ c.lat.Valid /\ c.lon.Valid
           /\ valueSegments' = IF rowCount > 0
                               THEN valueSegments \o <<",", "\n    (?, ?, ?, ?, ?, ?, ?)">>
                               ELSE Append(valueSegments, "\n    (?, ?, ?, ?, ?, ?, ?)")
           /\ args' = args \o <<r.state_id, r.entity_id, r.state, c.lat, c.lon,
                                c.acc, floatToNullTime(r.last_updated_ts)>>
    /\ rowCount' = rowCount + 1
    /\ rows' = Tail(rows)
    /\ processed' = Append(processed,
                           [state_id |-> Head(rows).state_id, how |-> "row"])
    /\ UNCHANGED <<states, gps_points, pc, runs, writes, history, energyState>>

\* lines 189-208: nothing is written when no row was added, otherwise one
\* statement carries every row
GpsEndOfStream ==
    /\ pc = "loop"
    /\ rows = <<>>
    /\ IF rowCount = 0
       THEN /\ pc' = "done"
            /\ history' = Append(history, GpsFinished("done"))
            /\ UNCHANGED <<gps_points, writes>>
       ELSE \E ok \in BOOLEAN :
                LET tuples == GpsStatementTuples(args)
                    result == IF ok THEN "done" ELSE "failed"
                IN  /\ gps_points' = IF ok THEN ExecGpsUpsert(gps_points, tuples)
                                     ELSE gps_points
                    /\ writes' = Append(writes, [tuples |-> tuples, ok |-> ok])
                    /\ pc' = result
                    /\ history' = Append(history, GpsFinished(result))
    /\ UNCHANGED <<states, runs, rows, args, valueSegments, rowCount, processed,
                   energyState>>

NextGps ==
    \/ RecordPosition
    \/ StartGps
    \/ GpsExtractError
    \/ GpsSkipRow
    \/ GpsAppendRow
    \/ GpsEndOfStream

SpecGps == Init /\ [][NextGps]_vars

----------------------------------------------------------------------------
(* Properties of the minute averager *)

\* the source reading of a state_id: its value, instant, entity and bucket
ReadingValue(id) == DecimalTexts[states[id].state]
ReadingTime(id) == states[id].last_updated_ts.Ts
ReadingEntity(id) == states[id].entity_id
ReadingMinute(id) == ReadingTime(id) - (ReadingTime(id) % Minute)

RECURSIVE SumOfReadings(_)
SumOfReadings(ids) ==
    IF ids = <<>> THEN 0
    ELSE ReadingValue(Head(ids))[1] + SumOfReadings(Tail(ids))

RECURSIVE Flatten(_)
Flatten(seqs) == IF seqs = <<>> THEN <<>> ELSE Head(seqs) \o Flatten(Tail(seqs))

\* the positions of the averaged rows among the rows appended in this run
Averages == {i \in 1..Len(appended) : appended[i].from.avg}

\* the state_ids of the readings the averaged rows stand for, in order
AveragedIds ==
    LET IsAverage(a) == a.from.avg
        avgs == SelectSeq(appended, IsAverage)
    IN  Flatten([k \in 1..Len(avgs) |-> avgs[k].from.ids])

\* the state_ids of the readings handed to Add in this run, in order
AddedIds ==
    LET IsAdd(x) == x.how = "add"
        adds == SelectSeq(processed, IsAdd)
    IN  [k \in 1..Len(adds) |-> adds[k].state_id]

IsPrefix(a, b) == Len(a) <= Len(b) /\ SubSeq(b, 1, Len(a)) = a

\* C1: the numeric value of every averaged row is the arithmetic mean of the
\* readings passed to Add since its group was opened, and of no others: the
\* groups are consecutive, disjoint blocks of the readings passed to Add.
C1_FlushEmitsMeanOfGroup ==
    /\ \A i \in Averages :
           LET ids == appended[i].from.ids
           IN  /\ ids # <<>>
               /\ appended[i].row.numericState =
                      [Valid |-> TRUE,
                       Float64 |-> Frac(SumOfReadings(ids), Len(ids))]
    /\ IsPrefix(AveragedIds \o group, AddedIds)
    /\ pc # "failed" => AveragedIds \o group = AddedIds

\* a row averaged from two readings of different values, another group
\* having been averaged in the same run
C1_Witness ==
    \E i \in Averages :
        LET ids == appended[i].from.ids
        IN  /\ Len(ids) = 2
            /\ ReadingValue(ids[1]) # ReadingValue(ids[2])
            /\ \E j \in Averages : j # i

\* the (entity, minute bucket) pairs of the readings handed to Add in this run
Pairs == {<<ReadingEntity(AddedIds[k]), ReadingMinute(AddedIds[k])>> : k \in 1..Len(AddedIds)}

\* the averaged rows of a pair
AggregatesOf(p) ==
    {i \in Averages :
        /\ appended[i].row.entityID = p[1]
        /\ appended[i].row.lastUpdated.Time
             - (appended[i].row.lastUpdated.Time % Minute) = p[2]}

\* the rows of this run that the watermark filter let through
Kept ==
    LET NotSkipped(x) == x.how # "skip"
    IN  SelectSeq(processed, NotSkipped)

IsAddOf(x, p) ==
    /\ x.how = "add"
    /\ ReadingEntity(x.state_id) = p[1]
    /\ ReadingMinute(x.state_id) = p[2]

\* where the maximal blocks of consecutive readings of pair p begin in Kept
Blocks(p) ==
    {k \in 1..Len(Kept) :
        IsAddOf(Kept[k], p) /\ (k = 1 \/ ~IsAddOf(Kept[k - 1], p))}

\* C2 as stated: a successful run emits exactly one averaged row for every
\* (entity, minute bucket) pair with an eligible reading past the watermark.
C2_ExactlyOneAggregatePerPair ==
    pc = "done" => \A p \in Pairs : Cardinality(AggregatesOf(p)) = 1

\* C2: a successful run emits, for every (entity, minute bucket) pair with an
\* eligible reading past the watermark, one averaged row for each maximal
\* block of the pair's readings that no other kept row interrupts: at least
\* one, and exactly one when nothing interrupts.
C2_OneAggregatePerBlock ==
    pc = "done" =>
        \A p \in Pairs :
            /\ Cardinality(AggregatesOf(p)) = Cardinality(Blocks(p))
            /\ Cardinality(AggregatesOf(p)) >= 1

\* a successful run with two averaged rows for one pair
C2_Witness ==
    pc = "done" /\ \E p \in Pairs : Cardinality(AggregatesOf(p)) = 2

Range(seq) == {seq[i] : i \in 1..Len(seq)}

\* no averaged row stands for readings on both sides of a row that was
\* appended as it is
NoGroupSpansRaw ==
    \A a, b, c \in 1..Len(processed) :
        (a < b /\ b < c /\ processed[b].how = "raw") =>
            ~\E i \in Averages :
                {processed[a].state_id, processed[c].state_id}
                    \subseteq Range(appended[i].from.ids)

\* the step handles the next row as how without an error
Handles(how) ==
    /\ pc = "loop"
    /\ pc' = "loop"
    /\ processed' = Append(processed, [state_id |-> Head(rows).state_id, how |-> how])

\* C3: a pass-through row that arrives while a group is open first makes the
\* group's averaged row be appended and closes the group, and only then is
\* appended itself; so no averaged row spans a pass-through row.
C3_PassThroughFlushesOpenGroup ==
    [][(Handles("raw") /\ averager.active) =>
          LET n == Len(appended)
          IN  /\ Len(appended') = n + 2
              /\ SubSeq(appended', 1, n) = appended
              /\ appended'[n + 1].from = [avg |-> TRUE, ids |-> group]
              /\ appended'[n + 1].row.entityID = averager.entityID
              /\ appended'[n + 2].from =
                     [avg |-> FALSE, ids |-> <<Head(rows).state_id>>]
              /\ ~averager'.active
              /\ group' = <<>>
              /\ NoGroupSpansRaw']_vars

\* two eligible readings of one entity and minute, a pass-through row
\* between them, and each in an averaged row of its own
C3_Witness ==
    /\ pc = "done"
    /\ \E a, b, c \in 1..Len(processed) :
           /\ a < b /\ b < c
           /\ processed[a].how = "add" /\ processed[b].how = "raw"
           /\ processed[c].how = "add"
           /\ ReadingEntity(processed[a].state_id) = ReadingEntity(processed[c].state_id)
           /\ ReadingMinute(processed[a].state_id) = ReadingMinute(processed[c].state_id)
           /\ \E i, j \in Averages :
                  /\ i # j
                  /\ processed[a].state_id \in Range(appended[i].from.ids)
                  /\ processed[c].state_id \in Range(appended[j].from.ids)

\* reading a is later than b: by the instant, then by the state id
Later(a, b) ==
    \/ ReadingTime(a) > ReadingTime(b)
    \/ ReadingTime(a) = ReadingTime(b) /\ a > b

Representative(ids) ==
    CHOOSE a \in Range(ids) : \A b \in Range(ids) : a = b \/ Later(a, b)

\* C4: the instant, the metadata and the state id of every averaged row are
\* those of the reading of its group that is greatest by (instant, state id),
\* whatever the order the readings were added in.
C4_RepresentativeIsLatest ==
    \A i \in Averages :
        LET rep == states[Representative(appended[i].from.ids)]
        IN  /\ appended[i].row.stateID = rep.state_id
            /\ appended[i].row.lastUpdated =
                   [Valid |-> TRUE, Time |-> rep.last_updated_ts.Ts]
            /\ appended[i].row.meta = extractEnergyMetadata(rep.shared_attrs).meta

\* two readings of one instant and different metadata, the one of the
\* greater state id added first
C4_Witness ==
    \E i \in Averages :
        LET ids == appended[i].from.ids
        IN  /\ Len(ids) = 2
            /\ ids[1] > ids[2]
            /\ ReadingTime(ids[1]) = ReadingTime(ids[2])
            /\ states[ids[1]].shared_attrs # states[ids[2]].shared_attrs

\* C5: Add on a reading of another entity or another minute bucket than the
\* open group's appends the averaged row of the open group, once, and opens
\* a group that holds the reading alone; Add on a reading of the same entity
\* and bucket appends nothing and extends the group.
C5_AddFlushesOnBoundary ==
    [][Handles("add") =>
          LET id == Head(rows).state_id
              value == ReadingValue(id)
              n == Len(appended)
          IN  IF /\ averager.active
                 /\ \/ ReadingEntity(id) # averager.entityID
                    \/ ReadingMinute(id) # averager.minute
              THEN /\ Len(appended') = n + 1
                   /\ SubSeq(appended', 1, n) = appended
                   /\ appended'[n + 1].from = [avg |-> TRUE, ids |-> group]
                   /\ appended'[n + 1].row.entityID = averager.entityID
                   /\ appended'[n + 1].row.numericState.Float64 =
                          Frac(averager.sum[1], averager.sum[2] * averager.count)
                   /\ appended'[n + 1].row.lastUpdated.Time = averager.maxTime
                   /\ averager'.active
                   /\ averager'.entityID = ReadingEntity(id)
                   /\ averager'.minute = ReadingMinute(id)
                   /\ averager'.sum = value
                   /\ averager'.count = 1
                   /\ group' = <<id>>
              ELSE /\ appended' = appended
                   /\ averager'.active
                   /\ averager'.entityID = ReadingEntity(id)
                   /\ averager'.minute = ReadingMinute(id)
                   /\ IF averager.active
                      THEN /\ averager'.sum =
                                  Frac(averager.sum[1] * value[2]
                                         + value[1] * averager.sum[2],
                                       averager.sum[2] * value[2])
                           /\ averager'.count = averager.count + 1
                           /\ group' = Append(group, id)
                      ELSE /\ averager'.sum = value
                           /\ averager'.count = 1
                           /\ group' = <<id>>]_vars

\* readings of 2 at 10:00:05, 4 at 10:00:40 and 6 at 10:01:10 were averaged
\* to 3 at 10:00:40 and 6 at 10:01:10
C5_Witness ==
    /\ pc = "done"
    /\ Len(appended) = 2
    /\ appended[1].from.avg /\ appended[2].from.avg
    /\ Len(appended[1].from.ids) = 2
    /\ appended[1].row.numericState.Float64 = <<3, 1>>
    /\ appended[1].row.lastUpdated.Time = 40 * Second
    /\ appended[2].row.numericState.Float64 = <<6, 1>>
    /\ appended[2].row.lastUpdated.Time = 70 * Second

----------------------------------------------------------------------------
(* Properties of the watermarks, the batches and the sink *)

\* the run before the current one, as history numbers it (0: there is none)
PreviousRun == IF pc = "loop" THEN Len(history) ELSE Len(history) - 1

\* the current run follows a successful run, the source being what it was
IsRerun ==
    /\ PreviousRun >= 1
    /\ history[PreviousRun].result = "done"
    /\ history[PreviousRun].states = Len(states)

\* C6 as stated: a run that follows a successful run, over the unchanged
\* source and the sink as that run left it, appends no row and leaves the
\* sink as it found it.
C6_RerunEmitsNothing ==
    IsRerun => appended = <<>> /\ energy_points = loaded.energy_points

\* C7: at no step of a run is a watermark entry removed or replaced by an
\* earlier instant, so every entry is at or after the instant it was loaded
\* with.
C7_WatermarkNeverDecreases ==
    [][pc = "loop" =>
          /\ \A e \in DOMAIN entityWatermarks :
                 /\ e \in DOMAIN entityWatermarks'
                 /\ entityWatermarks'[e] >= entityWatermarks[e]
          /\ \A e \in DOMAIN loaded.entityWatermarks :
                 /\ e \in DOMAIN entityWatermarks'
                 /\ entityWatermarks'[e] >= loaded.entityWatermarks[e]]_vars

\* an entry loaded from the sink has advanced in the run
C7_Witness ==
    /\ pc \in {"loop", "done"}
    /\ \E e \in DOMAIN loaded.entityWatermarks :
           entityWatermarks[e] > loaded.entityWatermarks[e]

\* C8: while rows are appended, one statement has been executed for every
\* energyBatchSize rows appended, each carrying energyBatchSize rows: none
\* during the first energyBatchSize - 1 appends, one by the time the next row
\* is appended after the energyBatchSize-th.  When the run ends, the rows that
\* remain (energyBatchSize - 1 after as many appends) have gone out in one
\* more statement.
C8_BatchBoundary ==
    LET n == Len(appended)
        full == n \div energyBatchSize
        rest == n % energyBatchSize
    IN  /\ pc = "loop" =>
               /\ Len(writes) = full
               /\ \A k \in 1..full : Len(writes[k].tuples) = energyBatchSize
        /\ pc = "done" =>
               /\ Len(writes) = full + (IF rest > 0 THEN 1 ELSE 0)
               /\ \A k \in 1..full : Len(writes[k].tuples) = energyBatchSize
               /\ rest > 0 => Len(writes[full + 1].tuples) = rest

\* energyBatchSize + 1 rows were appended: the first statement carried
\* energyBatchSize rows and the second the last row
C8_Witness ==
    /\ pc = "done"
    /\ Len(appended) = energyBatchSize + 1
    /\ Len(writes) = 2
    /\ Len(writes[1].tuples) = energyBatchSize
    /\ Len(writes[2].tuples) = 1

\* the step skips the next row: nothing of the run changes but the cursor
SkipStep ==
    /\ pc = "loop"
    /\ processed' = Append(processed, [state_id |-> Head(rows).state_id, how |-> "skip"])
    /\ UNCHANGED <<energy_points, entityWatermarks, args, valueSegments,
                   rowCount, averager, appended, writes>>

SkippedSomehow ==
    /\ Len(processed') = Len(processed) + 1
    /\ processed'[Len(processed')].how = "skip"

\* C9: the loop skips the next row exactly when the row has a
\* last_updated_ts, its entity has a watermark, and the instant is not after
\* the watermark.
C9_SkippedIffNotAfterWatermark ==
    [][(pc = "loop" /\ rows # <<>>) =>
          LET r == Head(rows)
              notAfter == /\ r.last_updated_ts.Valid
                          /\ r.entity_id \in DOMAIN entityWatermarks
                          /\ r.last_updated_ts.Ts <= entityWatermarks[r.entity_id]
          IN  /\ notAfter => SkipStep
              /\ ~notAfter => ~SkippedSomehow]_vars

\* a run skipped a row, and let through a row without last_updated_ts whose
\* entity had a watermark, and a row of an entity without one
C9_Witness ==
    \E i, j, k \in 1..Len(processed) :
        /\ processed[i].how = "skip"
        /\ processed[j].how # "skip"
        /\ ~states[processed[j].state_id].last_updated_ts.Valid
        /\ ReadingEntity(processed[j].state_id) \in DOMAIN loaded.entityWatermarks
        /\ processed[k].how # "skip"
        /\ ReadingEntity(processed[k].state_id) \notin DOMAIN loaded.entityWatermarks

\* C10 as stated: the statement last executed with success, executed again,
\* leaves energy_points as it is.
C10_ReapplyIsIdempotent ==
    (writes # <<>> /\ writes[Len(writes)].ok) =>
        ExecUpsert(energy_points, writes[Len(writes)].tuples) = energy_points

----------------------------------------------------------------------------
(* Properties of reruns and of the end of a run *)

\* a run on an empty sink, before its first row
Fresh ==
    [energy_points |-> <<>>, entityWatermarks |-> <<>>, args |-> <<>>,
     valueSegments |-> <<>>, rowCount |-> 0, averager |-> newMinuteAverager,
     err |-> FALSE, group |-> <<>>, appended |-> <<>>, writes |-> <<>>]

\* one turn of the loop on the state row r, no call failing
Turn(s, r) ==
    LET x == extractEnergyMetadata(r.shared_attrs)
        row == EnergyRow(r, x.meta)
    IN  IF Skips(s.entityWatermarks, r.entity_id, row.lastUpdated) THEN s
        ELSE IF ~x.ok THEN [s EXCEPT !.err = TRUE]
        ELSE IF shouldAggregateRow(row) THEN Add(s, row, TRUE)
        ELSE PassThrough(s, row, TRUE)

\* the loop over the rows of a cursor, stopping at the first error
RECURSIVE Turns(_, _)
Turns(s, cursor) ==
    IF cursor = <<>> THEN s
    ELSE IF Len(cursor) = 1 THEN Turn(s, cursor[1])
    ELSE LET half == Len(cursor) \div 2
             first == Turns(s, SubSeq(cursor, 1, half))
         IN  IF first.err THEN first
             ELSE Turns(first, SubSeq(cursor, half + 1, Len(cursor)))

\* the sink one uninterrupted, successful run leaves when it starts on an
\* empty sink and the query returns cursor
UninterruptedRun(cursor) ==
    LET s1 == Turns(Fresh, cursor)
    IN  IF s1.err THEN s1 ELSE Finish(s1, TRUE)

\* a sink row without the key the sink assigned
Content(r) ==
    <<r.entity_id, r.state, r.numeric_state, r.unit, r.device_class,
      r.state_class, r.friendly_name, r.last_updated>>

Copies(table, c) == Cardinality({i \in 1..Len(table) : Content(table[i]) = c})

\* the two tables hold the same rows, each as many times
SameRows(a, b) ==
    /\ Len(a) = Len(b)
    /\ \A i \in 1..Len(a) : Copies(a, Content(a[i])) = Copies(b, Content(a[i]))

\* every run before the current one aborted, the first of them started on
\* an empty sink, and the source has been the same all along
AfterAborts ==
    /\ PreviousRun >= 1
    /\ \A k \in 1..PreviousRun :
           history[k].result = "failed" /\ history[k].states = Len(states)

\* C11 as stated: a run that completes after runs that aborted, the source
\* unchanged, leaves in the sink the rows that one uninterrupted successful
\* run leaves: none lost, none twice.
C11_RerunAfterAbortIsUninterruptedRun ==
    (pc = "done" /\ AfterAborts) =>
        \E cursor \in QueryStates(states, entitySlug) :
            LET s == UninterruptedRun(cursor)
            IN  ~s.err /\ SameRows(energy_points, s.energy_points)

\* the VALUES tuple appendRow buffers for row
TupleOf(row) ==
    <<row.entityID, row.state, row.numericState, row.meta.Unit,
      row.meta.DeviceClass, row.meta.StateClass, row.meta.FriendlyName,
      row.lastUpdated>>

\* the tuples of the statements executed in this run, in order
WrittenTuples(w) == Flatten([k \in 1..Len(w) |-> w[k].tuples])

\* the run has come to its end: nothing is open, nothing is buffered, every
\* reading handed to Add is in an averaged row, every appended row has gone
\* out in a statement that succeeded
AtRest ==
    /\ ~averager.active
    /\ group = <<>>
    /\ rowCount = 0 /\ args = <<>> /\ valueSegments = <<>>
    /\ AveragedIds = AddedIds
    /\ \A k \in 1..Len(writes) : writes[k].ok
    /\ WrittenTuples(writes) = [i \in 1..Len(appended) |-> TupleOf(appended[i].row)]

\* C12: a run without error ends: every turn of the loop shortens the
\* cursor by one row and the step taken on the empty cursor ends the run; at
\* the end of the stream the open group is appended first, after the rows
\* already buffered, and then all of them are written; the run that is done
\* is at rest.
C12_EndOfStreamFlushesBoth ==
    /\ [](pc = "done" => AtRest)
    /\ [][(pc = "loop" /\ pc' = "loop") => rows # <<>> /\ rows' = Tail(rows)]_vars
    /\ [][(pc = "loop" /\ rows = <<>>) => pc' \in {"done", "failed"}]_vars
    /\ [][(pc = "loop" /\ pc' = "done") =>
             /\ rows = <<>>
             /\ appended' =
                    IF averager.active
                    THEN Append(appended,
                                [row |-> averageRow(averager),
                                 from |-> [avg |-> TRUE, ids |-> group]])
                    ELSE appended
             /\ WrittenTuples(writes') =
                    WrittenTuples(writes)
                      \o StatementTuples(valueSegments, args)
                      \o (IF averager.active
                          THEN <<TupleOf(averageRow(averager))>>
                          ELSE <<>>)]_vars

\* a run is done whose last group was still open at the end of the stream,
\* a pass-through row waiting in the buffer
C12_Witness ==
    /\ pc = "done"
    /\ Len(appended) >= 2
    /\ appended[Len(appended)].from.avg
    /\ ~appended[Len(appended) - 1].from.avg
    /\ processed[Len(processed)].how = "add"
    /\ Len(writes) = 1
    /\ Len(writes[1].tuples) = Len(appended)

\* the next row is past the watermark filter and its payload is malformed
MalformedNext ==
    /\ pc = "loop"
    /\ rows # <<>>
    /\ Head(rows).shared_attrs = AttrsBroken
    /\ LET r == Head(rows)
       IN  ~(/\ r.last_updated_ts.Valid
             /\ r.entity_id \in DOMAIN entityWatermarks
             /\ r.last_updated_ts.Ts <= entityWatermarks[r.entity_id])

C14_CancellationStopsWithoutFlushing ==
    /\ [][(pc = "loop" /\ pc' = "failed") =>
             /\ energy_points' = energy_points
             /\ writes' = writes => UNCHANGED runState
             /\ writes' # writes =>
                    /\ Len(writes') = Len(writes) + 1
                    /\ SubSeq(writes', 1, Len(writes)) = writes
                    /\ ~writes'[Len(writes')].ok]_vars
    /\ [][(pc = "failed" /\ pc' = "failed") => UNCHANGED runState]_vars

\* a run stopped at a fetch, with an open group, buffered rows and a
\* well-formed row still to come
C14_Witness ==
    /\ pc = "failed"
    /\ rows # <<>>
    /\ rows[1].shared_attrs # AttrsBroken
    /\ averager.active
    /\ rowCount > 0
    /\ writes = <<>>
    /\ energy_points = <<>>

\* the reading has a timestamp, a numeric value and a high-frequency entity
Eligible(id) ==
    /\ states[id].last_updated_ts.Valid
    /\ states[id].state \in DOMAIN DecimalTexts
    /\ states[id].entity_id \in {Voltage, Current}

\* the reading as the loop hands it on
Verbatim(id) ==
    [stateID |-> id,
     entityID |-> states[id].entity_id,
     state |-> states[id].state,
     numericState |-> IF states[id].state \in DOMAIN DecimalTexts
                      THEN [Valid |-> TRUE, Float64 |-> DecimalTexts[states[id].state]]
                      ELSE NullFloat64,
     meta |-> extractEnergyMetadata(states[id].shared_attrs).meta,
     lastUpdated |-> IF states[id].last_updated_ts.Valid
                     THEN [Valid |-> TRUE, Time |-> states[id].last_updated_ts.Ts]
                     ELSE NullTime]

\* C15: a reading that is not skipped goes to Add exactly when it has a
\* timestamp, a numeric value and a high-frequency entity; every other one
\* is appended exactly once, as it is, and is part of no averaged row.
C15_RoutingByEligibility ==
    \A k \in 1..Len(processed) :
        LET id == processed[k].state_id
        IN  processed[k].how # "skip" =>
                /\ processed[k].how = "add" <=> Eligible(id)
                /\ processed[k].how = "raw" =>
                       /\ Cardinality({i \in 1..Len(appended) :
                                          /\ ~appended[i].from.avg
                                          /\ appended[i].from.ids = <<id>>}) = 1
                       /\ \A i \in 1..Len(appended) :
                              IF appended[i].from.avg
                              THEN id \notin Range(appended[i].from.ids)
                              ELSE appended[i].from.ids = <<id>> =>
                                       appended[i].row = Verbatim(id)

\* a run has passed on a reading without a timestamp, one without a numeric
\* value and one of another entity, and has aggregated a reading
C15_Witness ==
    /\ \E k \in 1..Len(processed) :
           /\ processed[k].how = "raw"
           /\ states[processed[k].state_id].entity_id = Voltage
           /\ ~states[processed[k].state_id].last_updated_ts.Valid
    /\ \E k \in 1..Len(processed) :
           /\ processed[k].how = "raw"
           /\ states[processed[k].state_id].state = "unavailable"
    /\ \E k \in 1..Len(processed) : processed[k].how = "add"

\* the rows of the sink that hold an average: an eligible reading reaches
\* the sink only as part of one
AveragedInSink ==
    {i \in 1..Len(energy_points) :
        /\ energy_points[i].entity_id \in {Voltage, Current}
        /\ energy_points[i].numeric_state.Valid
        /\ energy_points[i].last_updated.Valid}

\* every run so far completed successfully
AllRunsDone ==
    /\ pc \in {"idle", "done"}
    /\ \A k \in 1..Len(history) : history[k].result = "done"

\* C16 as stated, for sources all of whose readings are eligible: after
\* successful runs, between which the source may have grown, no two averaged
\* rows of the sink have the same entity and the same wall-clock minute.
C16_OneAveragedRowPerMinuteInSink ==
    (AllRunsDone /\ \A id \in 1..Len(states) : Eligible(id)) =>
        \A i, j \in AveragedInSink :
            (/\ energy_points[i].entity_id = energy_points[j].entity_id
             /\ Truncate(energy_points[i].last_updated.Time, Minute)
                    = Truncate(energy_points[j].last_updated.Time, Minute))
                => i = j

\* C17 as stated: after a successful run that started on an empty sink,
\* every source row whose entity_id contains the --entity substring has a
\* row in energy_points with its entity_id, its raw state and its
\* last_updated (as the DATETIME column holds it).
C17_EachMatchingRowIsStored ==
    (/\ pc = "done"
     /\ Len(history) = 1
     /\ history[1].states = Len(states)
     /\ loaded.energy_points = <<>>) =>
        \A id \in 1..Len(states) :
            Contains(states[id].entity_id, entitySlug) =>
                \E i \in 1..Len(energy_points) :
                    /\ energy_points[i].entity_id = states[id].entity_id
                    /\ energy_points[i].state = states[id].state
                    /\ energy_points[i].last_updated
                           = ToDatetime(floatToNullTime(states[id].last_updated_ts))

----------------------------------------------------------------------------
(* Properties of the gps command *)

\* what the payloads of the tracker hold
UsableLatitude(raw) == raw \in {GpsFull, GpsNoAccuracy, GpsBadAccuracy, GpsTextLongitude}
UsableLongitude(raw) == raw \in {GpsFull, GpsNoAccuracy, GpsBadAccuracy, GpsNullLatitude}
LatitudeOf(raw) == IF raw = GpsNoAccuracy THEN <<4, 1>> ELSE <<2, 1>>
LongitudeOf(raw) == IF raw = GpsFull THEN <<4, 1>> ELSE <<6, 1>>
AccuracyOf(raw) ==
    IF raw = GpsFull THEN [Valid |-> TRUE, Float64 |-> <<6, 1>>] ELSE NullFloat64

\* the output rows of the run so far
OutputRows == GpsStatementTuples(args)

\* C18: a row whose payload lacks a usable latitude or a usable longitude
\* gives no output row; a row with both gives exactly one, whose
\* gps_accuracy is the payload's when it is a number and absent otherwise;
\* a payload that does not parse ends the run, nothing else changing.
C18_GpsRowsNeedBothCoordinates ==
    /\ [](\A k \in 1..Len(processed) :
            LET id == processed[k].state_id
                raw == states[id].shared_attrs
                out == {i \in 1..Len(OutputRows) : OutputRows[i][1] = id}
            IN  IF UsableLatitude(raw) /\ UsableLongitude(raw)
                THEN /\ processed[k].how = "row"
                     /\ Cardinality(out) = 1
                     /\ \A i \in out :
                            /\ OutputRows[i][4] = [Valid |-> TRUE, Float64 |-> LatitudeOf(raw)]
                            /\ OutputRows[i][5] = [Valid |-> TRUE, Float64 |-> LongitudeOf(raw)]
                            /\ OutputRows[i][6] = AccuracyOf(raw)
                ELSE processed[k].how = "skip" /\ out = {})
    /\ [][(pc = "loop" /\ rows # <<>> /\ Head(rows).shared_attrs = GpsBroken) =>
             /\ pc' = "failed"
             /\ UNCHANGED <<gps_points, rows, args, rowCount, writes, processed>>]_vars
    /\ [][(pc = "failed" /\ pc' = "failed") =>
             UNCHANGED <<gps_points, rows, args, rowCount, writes, processed>>]_vars

\* a run skipped the row without a latitude and stored the row whose
\* accuracy is malformed, without an accuracy
C18_Witness ==
    /\ pc = "done"
    /\ \E k \in 1..Len(processed) :
           /\ processed[k].how = "skip"
           /\ states[processed[k].state_id].shared_attrs = GpsNullLatitude
    /\ \E i \in 1..Len(gps_points) :
           /\ states[gps_points[i].state_id].shared_attrs = GpsBadAccuracy
           /\ gps_points[i].gps_accuracy = NullFloat64
           /\ gps_points[i].latitude.Valid

\* the state rows that have a latitude and a longitude
Qualifying ==
    {id \in 1..Len(states) :
        /\ UsableLatitude(states[id].shared_attrs)
        /\ UsableLongitude(states[id].shared_attrs)}

\* the source is as every run so far left it
SourceUnchanged == \A k \in 1..Len(history) : history[k].states = Len(states)

\* C19: after a successful run, the source being the same in every run so
\* far, gps_points holds exactly one row for every state row that has a
\* latitude and a longitude, with these, and no other row; a run in which
\* no row qualifies writes nothing, and no run writes twice.
C19_GpsUpsertOneRowPerState ==
    /\ (pc = "done" /\ SourceUnchanged) =>
           /\ Len(gps_points) = Cardinality(Qualifying)
           /\ \A id \in Qualifying :
                  \E i \in 1..Len(gps_points) :
                      /\ gps_points[i].state_id = id
                      /\ gps_points[i].entity_id = states[id].entity_id
                      /\ gps_points[i].latitude.Float64 = LatitudeOf(states[id].shared_attrs)
                      /\ gps_points[i].longitude.Float64 = LongitudeOf(states[id].shared_attrs)
    /\ (\A k \in 1..Len(processed) : processed[k].how # "row") => writes = <<>>
    /\ Len(writes) <= 1

\* the second successful run over the same source, some of whose rows
\* qualify and some do not
C19_Witness ==
    /\ pc = "done"
    /\ SourceUnchanged
    /\ Len(history) >= 2
    /\ \A k \in 1..Len(history) : history[k].result = "done"
    /\ Len(gps_points) >= 2
    /\ Len(states) > Len(gps_points)
    /\ Len(writes) = 1

----------------------------------------------------------------------------
(* Properties of a failing emission *)

\* Flush has emitted the open group in this step
Emitted ==
    /\ pc = "loop"
    /\ Len(appended') > Len(appended)
    /\ appended'[Len(appended) + 1].from.avg

\* a write of this step has failed
WriteFailed ==
    /\ Len(writes') = Len(writes) + 1
    /\ ~writes'[Len(writes')].ok

\* C20: the step in which Flush emits a group leaves the averager idle and
\* the group empty, whether or not the emission succeeds, except that Add,
\* when the emission succeeded, has opened the group of its reading alone;
\* a step with a failed write fails, and a step that emits fails only then;
\* and when Add fails, it has emitted and its reading is in no group, open
\* or emitted.
C20_FlushResetsAndPropagates ==
    /\ [][Emitted =>
             IF pc' = "loop" /\ processed'[Len(processed')].how = "add"
             THEN /\ averager'.active
                  /\ averager'.count = 1
                  /\ group' = <<Head(rows).state_id>>
             ELSE averager' = newMinuteAverager /\ group' = <<>>]_vars
    /\ [][(pc = "loop" /\ WriteFailed) => pc' = "failed"]_vars
    /\ [][Emitted => (pc' = "failed" <=> WriteFailed)]_vars
    /\ [][(pc = "loop" /\ pc' = "failed" /\ Len(processed') > Len(processed)
              /\ processed'[Len(processed')].how = "add") =>
                /\ Emitted
                /\ averager' = newMinuteAverager
                /\ group' = <<>>
                /\ \A i \in 1..Len(appended') :
                       Head(rows).state_id \notin Range(appended'[i].from.ids)]_vars

\* Add has failed: the group it flushed was the row that filled the batch,
\* and the write of the batch failed
C20_Witness ==
    /\ pc = "failed"
    /\ processed # <<>>
    /\ processed[Len(processed)].how = "add"
    /\ appended # <<>>
    /\ appended[Len(appended)].from.avg
    /\ writes # <<>>
    /\ ~writes[Len(writes)].ok
    /\ averager = newMinuteAverager
    /\ rowCount = energyBatchSize

----------------------------------------------------------------------------
(* Properties of the calls of emit, of the filter and of the watermarks *)

\* the averaged rows appended in this step: the calls of emit by the averager
NewAverages ==
    {i \in (Len(appended) + 1)..Len(appended') : appended'[i].from.avg}

\* this step is a call of averager.Add
AddStep ==
    /\ pc = "loop"
    /\ Len(processed') = Len(processed) + 1
    /\ processed'[Len(processed')].how = "add"

\* the row at the head of the cursor belongs to another group than the open one
HeadCrossesBoundary ==
    /\ averager.active
    /\ \/ Head(rows).entity_id # averager.entityID
       \/ Head(rows).last_updated_ts.Ts - (Head(rows).last_updated_ts.Ts % Minute)
              # averager.minute

\* what the batch writer and the watermark filter hold
bufferState ==
    <<args, valueSegments, rowCount, entityWatermarks, writes, energy_points>>

\* C21: a step of the loop makes one call of Add or of Flush, and emit is
\* called at most once in it; Add appends nothing but what it emits, and an
\* Add that crosses no boundary emits nothing and leaves the buffer and the
\* watermarks as they are; Flush on an idle averager emits nothing and
\* leaves the averager idle, and with nothing buffered the end of the stream
\* changes nothing of the run.
C21_EmitAtMostOncePerCall ==
    /\ [][pc = "loop" => Cardinality(NewAverages) <= 1]_vars
    /\ [][AddStep =>
             /\ Len(appended') - Len(appended) = Cardinality(NewAverages)
             /\ Cardinality(NewAverages) = 1 <=> HeadCrossesBoundary
             /\ ~HeadCrossesBoundary =>
                    appended' = appended /\ UNCHANGED bufferState]_vars
    /\ [][(pc = "loop" /\ ~averager.active /\ ~AddStep) =>
             /\ NewAverages = {}
             /\ averager' = averager
             /\ group' = group
             /\ (rows = <<>> /\ rowCount = 0) => UNCHANGED runState]_vars

\* Add has joined a reading to the open group while a row was buffered
C21_Witness ==
    /\ pc = "loop"
    /\ averager.active
    /\ averager.count = 2
    /\ Len(group) = 2
    /\ rowCount = 1
    /\ Len(appended) = 1
    /\ processed[Len(processed)].how = "add"

\* C22: the step that skips a row leaves the watermarks, the averager with
\* its open group and the batch buffer as they are, appends and writes
\* nothing, and stays in the loop; within a run the watermarks change only
\* in a step that appends a row.
C22_SkipChangesNothing ==
    /\ [][(pc = "loop" /\ SkippedSomehow) =>
             /\ UNCHANGED <<entityWatermarks, averager, group, args,
                            valueSegments, rowCount, appended, writes,
                            energy_points>>
             /\ pc' = "loop"
             /\ rows' = Tail(rows)]_vars
    /\ [][(pc = "loop" /\ entityWatermarks' # entityWatermarks) =>
             Len(appended') > Len(appended)]_vars

\* a row has been skipped while a group was open
C22_Witness ==
    /\ pc = "loop"
    /\ processed # <<>>
    /\ processed[Len(processed)].how = "skip"
    /\ averager.active
    /\ group # <<>>
    /\ entityWatermarks # <<>>

\* the instants of the rows of entity e appended in this run
AppendedAt(e) ==
    {appended[i].row.lastUpdated.Time :
        i \in {j \in 1..Len(appended) :
                 /\ appended[j].row.entityID = e
                 /\ appended[j].row.lastUpdated.Valid}}

\* the instants the watermark of e may have come from
WatermarkSources(e) ==
    AppendedAt(e) \union
        (IF e \in DOMAIN loaded.entityWatermarks
         THEN {loaded.entityWatermarks[e]} ELSE {})

\* the sink holds a row of e with the instant t
WrittenAt(e, t) ==
    \E i \in 1..Len(energy_points) :
        /\ energy_points[i].entity_id = e
        /\ energy_points[i].last_updated = ToDatetime([Valid |-> TRUE, Time |-> t])

\* C23 as stated: during a run the watermark of every entity is the instant
\* of a row of that entity which the sink holds.
C23_WatermarkIsDurablyWritten ==
    pc = "loop" =>
        \A e \in DOMAIN entityWatermarks : WrittenAt(e, entityWatermarks[e])

\* C23: during and after a run the watermark of every entity is the latest
\* of the watermark loaded at the start, which is the instant of a row the
\* sink holds, and of the instants of the rows of the entity appended in
\* this run, written or not; an entity has a watermark exactly when there
\* is such an instant.
C23_WatermarkIsLoadedOrAppended ==
    pc # "idle" =>
        /\ DOMAIN entityWatermarks
               = {e \in {Voltage, Current, Power, Lamp} : WatermarkSources(e) # {}}
        /\ \A e \in DOMAIN entityWatermarks :
               /\ entityWatermarks[e] \in WatermarkSources(e)
               /\ \A t \in WatermarkSources(e) : t <= entityWatermarks[e]
        /\ \A e \in DOMAIN loaded.entityWatermarks :
               WrittenAt(e, loaded.entityWatermarks[e])

\* one watermark is that of a row which is only buffered, another was loaded
C23_Witness ==
    /\ pc = "loop"
    /\ rowCount > 0
    /\ writes = <<>>
    /\ loaded.entityWatermarks # <<>>
    /\ \E e \in DOMAIN entityWatermarks :
           /\ entityWatermarks[e] \in AppendedAt(e)
           /\ ~WrittenAt(e, entityWatermarks[e])

\* the reading is after the watermark its entity had when the run started
AfterLoaded(id) ==
    /\ states[id].last_updated_ts.Valid
    /\ \/ states[id].entity_id \notin DOMAIN loaded.entityWatermarks
       \/ states[id].last_updated_ts.Ts
              > loaded.entityWatermarks[states[id].entity_id]

\* the reading was appended once, as it is
AppendedVerbatim(id) ==
    /\ Cardinality({i \in 1..Len(appended) :
                       ~appended[i].from.avg /\ appended[i].from.ids = <<id>>}) = 1
    /\ \A i \in 1..Len(appended) :
           (~appended[i].from.avg /\ appended[i].from.ids = <<id>>) =>
               appended[i].row = Verbatim(id)

\* the reading is counted once in one averaged row
CountedInOneAggregate(id) ==
    Cardinality({p \in (1..Len(appended)) \X (1..Len(states)) :
                    /\ appended[p[1]].from.avg
                    /\ p[2] <= Len(appended[p[1]].from.ids)
                    /\ appended[p[1]].from.ids[p[2]] = id}) = 1

\* C24 as stated: in a successful run every reading that is after the
\* watermark loaded for its entity is appended as it is or counted in
\* exactly one averaged row.
C24_NoReadingAfterLoadedWatermarkDropped ==
    pc = "done" =>
        \A id \in 1..history[Len(history)].states :
            AfterLoaded(id) => (AppendedVerbatim(id) \/ CountedInOneAggregate(id))

----------------------------------------------------------------------------
(* Properties of the batch writer and of the groups *)

\* C25: every write carries at least one row and at most energyBatchSize;
\* in a run that succeeded every write succeeded and the writes carry, in
\* order, the rows passed to appendRow, each once.
C25_BatchConservation ==
    /\ \A k \in 1..Len(writes) :
           /\ Len(writes[k].tuples) >= 1
           /\ Len(writes[k].tuples) <= energyBatchSize
    /\ pc = "done" =>
           /\ \A k \in 1..Len(writes) : writes[k].ok
           /\ WrittenTuples(writes)
                  = [i \in 1..Len(appended) |-> TupleOf(appended[i].row)]

\* a run has succeeded with a full batch and a partial one
C25_Witness ==
    /\ pc = "done"
    /\ Len(writes) = 2
    /\ Len(writes[1].tuples) = energyBatchSize
    /\ Len(writes[2].tuples) \in 1..(energyBatchSize - 1)
    /\ Len(appended) = Len(writes[1].tuples) + Len(writes[2].tuples)

\* the VALUES fragments buffered
Fragments == {i \in 1..Len(valueSegments) : valueSegments[i] = ValueTuple}

\* C26: the buffer holds eight arguments and one VALUES fragment for every
\* buffered row; while a run has not failed it holds fewer than
\* energyBatchSize rows; after a failed write it still holds the rows of
\* the statement that failed.
C26_BufferInvariants ==
    /\ rowCount >= 0
    /\ rowCount <= energyBatchSize
    /\ Len(args) = 8 * rowCount
    /\ Cardinality(Fragments) = rowCount
    /\ pc # "failed" => rowCount < energyBatchSize
    /\ (pc = "failed" /\ writes # <<>> /\ ~writes[Len(writes)].ok) =>
           /\ rowCount = Len(writes[Len(writes)].tuples)
           /\ rowCount >= 1
           /\ StatementTuples(valueSegments, args) = writes[Len(writes)].tuples

\* the write of a full batch has failed and the batch is still buffered
C26_Witness ==
    /\ pc = "failed"
    /\ rowCount = energyBatchSize
    /\ Len(args) = 8 * energyBatchSize
    /\ Len(writes) = 1
    /\ ~writes[1].ok
    /\ energy_points = <<>>

\* this step calls Flush
FlushStep ==
    /\ pc = "loop"
    /\ \/ AddStep /\ HeadCrossesBoundary
       \/ /\ Len(processed') = Len(processed) + 1
          /\ processed'[Len(processed')].how = "raw"
       \/ rows = <<>> /\ pc' \in {"done", "failed"}

\* C27: an active averager has counted at least one reading, as many as its
\* group holds, and has a representative, which is one of them; so every
\* Flush of an active averager emits exactly one row.
C27_AccumulatingHasReadings ==
    /\ [](averager.active =>
             /\ averager.count >= 1
             /\ averager.count = Len(group)
             /\ averager.maxTimeValid
             /\ averager.stateID \in Range(group))
    /\ [][(FlushStep /\ averager.active) => Cardinality(NewAverages) = 1]_vars

\* Add has flushed a group and holds the reading that crossed the boundary
C27_Witness ==
    /\ pc = "loop"
    /\ Len(appended) = 1
    /\ appended[1].from.avg
    /\ Len(appended[1].from.ids) = 2
    /\ averager.active
    /\ averager.count = 1

\* C28: every averaged row has a timestamp, the latest of the instants of
\* the readings of its group; every reading of the group has the entity of
\* the row and lies in the minute the row's timestamp lies in.
C28_AggregateTimeIsGroupMaximum ==
    \A i \in Averages :
        LET row == appended[i].row
            ids == Range(appended[i].from.ids)
        IN  /\ ids # {}
            /\ row.lastUpdated.Valid
            /\ \E id \in ids : ReadingTime(id) = row.lastUpdated.Time
            /\ \A id \in ids :
                   /\ states[id].last_updated_ts.Valid
                   /\ ReadingTime(id) <= row.lastUpdated.Time
                   /\ ReadingEntity(id) = row.entityID
                   /\ ReadingMinute(id)
                          = row.lastUpdated.Time - (row.lastUpdated.Time % Minute)

\* an averaged row stands for two readings of different instants and has
\* the later one, and another averaged row was emitted for another group
C28_Witness ==
    /\ Cardinality(Averages) >= 2
    /\ \E i \in Averages :
           /\ Len(appended[i].from.ids) = 2
           /\ ReadingTime(appended[i].from.ids[1]) # ReadingTime(appended[i].from.ids[2])

====
